---- MODULE Spec2Model ----
(***************************************************************************)
(* A model of landlab's DischargeDiffuser component                        *)
(* (src/landlab/components/discharge_diffuser/diffuse_by_discharge.py):    *)
(* construction on a grid, and run_one_step's fixed-point solve for the    *)
(* potential K followed by the discharge post-processing.                  *)
(*                                                                         *)
(* Reading of the source.  The file under src/ is work in progress: lines  *)
(* 131, 178 and 193-218 are unfinished fragments (an assignment inside an  *)
(* assert, a dangling "self._", empty subscripts), and the solve reads     *)
(* names it never binds (Qwater_in, prev_K, self._discharges_at_link,      *)
(* self.route_on_diagonals, self.equation).  The model takes the           *)
(* statements of the solve as they stand and resolves                      *)
(*   - line 131 as the equality test "self._raster == True";               *)
(*   - Qwater_in as the grid's water influx field (_input_var_names);      *)
(*   - prev_K, read at line 246 before run_one_step binds it, as holding   *)
(*     either buffer the component owns at that point: the construction-   *)
(*     time self._prevK (line 154) or the current self._K.  Both choices   *)
(*     are explored;                                                       *)
(*   - route_on_diagonals as False (it is never set), so the loop at      *)
(*     241-251 is the one that runs;                                       *)
(*   - equation, which __init__ never sets either, as an attribute of the  *)
(*     component holding one of the three names run_one_step tests for;    *)
(*   - self._Qw, allocated with the grid's (rows, columns) shape at line   *)
(*     159, as the flat per-node array that line 288 writes into it.       *)
(*                                                                         *)
(* The module also models NormalFault                                      *)
(* (src/landlab/components/normal_fault/normal_fault.py): construction     *)
(* and run_one_step on the node fields of a raster grid.                   *)
(*                                                                         *)
(* Numbers.  The arrays are IEEE doubles and the floor constant is 1e-24,  *)
(* far below one unit in the last place of the gradients and influxes it   *)
(* is added to.  A value is modelled as an exact rational mantissa in      *)
(* [1,10) with a decimal exponent; an addition drops the smaller operand   *)
(* when it is AbsorbDigits or more orders of magnitude below the larger,   *)
(* as a double does, and is exact otherwise.                               *)
(***************************************************************************)
EXTENDS Integers, Sequences, FiniteSets, TLC

(***************************************************************************)
(* Bounds of the model.                                                    *)
(***************************************************************************)
MaxElev == 2
MaxQ == 1
MaxCalls == 2
MaxDt == 2
MaxFaultCalls == 2

(***************************************************************************)
(* Decimal-exponent rationals: [n, d, e] stands for (n/d) * 10^e.          *)
(***************************************************************************)
AbsorbDigits == 17

\* The sum of squares at line 246 is only ever compared with 1e-6; it is
\* accumulated to this many orders of magnitude below its largest term.
SumDigits == 4

Abs(i) == IF i < 0 THEN -i ELSE i

RECURSIVE GCD(_, _)
GCD(a, b) == IF b = 0 THEN a ELSE GCD(b, a % b)

RECURSIVE Pow10(_)
Pow10(k) == IF k = 0 THEN 1 ELSE 10 * Pow10(k - 1)

Zero == [n |-> 0, d |-> 1, e |-> 0]

RECURSIVE Norm(_, _, _)
Norm(n, d, e) ==
    IF n = 0 THEN Zero
    ELSE LET c == GCD(Abs(n), d)
             rn == n \div c
             rd == d \div c
         IN  IF Abs(rn) >= 10 * rd THEN Norm(rn, 10 * rd, e + 1)
             ELSE IF Abs(rn) < rd THEN Norm(10 * rn, rd, e - 1)
             ELSE [n |-> rn, d |-> rd, e |-> e]

FromInt(i) == Norm(i, 1, 0)

Neg(a) == [a EXCEPT !.n = -a.n]

Mul(a, b) == Norm(a.n * b.n, a.d * b.d, a.e + b.e)

Div(a, b) ==
    IF b.n < 0 THEN Norm(-(a.n * b.d), a.d * (-b.n), a.e - b.e)
    ELSE Norm(a.n * b.d, a.d * b.n, a.e - b.e)

\* a + b, the smaller operand dropped when `digits` or more orders below the larger.
AddTo(a, b, digits) ==
    IF a.n = 0 THEN b
    ELSE IF b.n = 0 THEN a
    ELSE LET hi == IF a.e >= b.e THEN a ELSE b
             lo == IF a.e >= b.e THEN b ELSE a
             k  == hi.e - lo.e
         IN  IF k >= digits THEN hi
             ELSE Norm(hi.n * Pow10(k) * lo.d + lo.n * hi.d, hi.d * lo.d, lo.e)

Add(a, b) == AddTo(a, b, AbsorbDigits)

Sub(a, b) == Add(a, Neg(b))

Sign(a) == IF a.n > 0 THEN 1 ELSE IF a.n < 0 THEN -1 ELSE 0

Gt(a, b) ==
    IF Sign(a) # Sign(b) THEN Sign(a) > Sign(b)
    ELSE IF Sign(a) = 0 THEN FALSE
    ELSE IF Sign(a) > 0
         THEN a.e > b.e \/ (a.e = b.e /\ a.n * b.d > b.n * a.d)
         ELSE a.e < b.e \/ (a.e = b.e /\ a.n * b.d > b.n * a.d)

Ge(a, b) == a = b \/ Gt(a, b)

Clip0(a) == IF a.n < 0 THEN Zero ELSE a

\* np.sqrt of a positive value, to SqrtDigits digits after the leading one.
SqrtDigits == 2

ISqrt(x) == CHOOSE r \in 0..Pow10(SqrtDigits + 1) : r * r <= x /\ (r + 1) * (r + 1) > x

Sqrt(a) ==
    Norm(ISqrt((a.n * (IF a.e % 2 = 1 THEN 10 ELSE 1) * Pow10(2 * SqrtDigits)) \div a.d),
         Pow10(SqrtDigits), a.e \div 2)

\* np.sign(a) * np.sqrt(np.fabs(a))
SignedSqrt(a) ==
    IF a.n = 0 THEN Zero
    ELSE IF a.n < 0 THEN Neg(Sqrt(Neg(a)))
    ELSE Sqrt(a)

RECURSIVE SumSeq(_)
SumSeq(s) == IF s = <<>> THEN Zero ELSE Add(SumSeq(SubSeq(s, 1, Len(s) - 1)), s[Len(s)])

(***************************************************************************)
(* The grid (landlab's RasterModelGrid, consumed through its interface).   *)
(* Nodes are numbered row by row from the bottom-left corner; a link is    *)
(* the pair <<tail, head>> of its end nodes, pointing east or north.       *)
(***************************************************************************)
number_of_nodes(gr) == gr.rows * gr.cols

Nodes(gr) == 0 .. (number_of_nodes(gr) - 1)

RowOf(gr, n) == n \div gr.cols

ColOf(gr, n) == n % gr.cols

IsPerimeter(gr, n) ==
    \/ RowOf(gr, n) = 0
    \/ RowOf(gr, n) = gr.rows - 1
    \/ ColOf(gr, n) = 0
    \/ ColOf(gr, n) = gr.cols - 1

nodes_at_edge(gr, edge) ==
    { n \in Nodes(gr) :
        \/ edge = "left" /\ ColOf(gr, n) = 0
        \/ edge = "right" /\ ColOf(gr, n) = gr.cols - 1
        \/ edge = "bottom" /\ RowOf(gr, n) = 0
        \/ edge = "top" /\ RowOf(gr, n) = gr.rows - 1 }

\* Node status after the caller closed the edges in `closed`.
StatusField(gr, closed) ==
    [ n \in Nodes(gr) |->
        IF \E edge \in closed : n \in nodes_at_edge(gr, edge) THEN "CLOSED_BOUNDARY"
        ELSE IF IsPerimeter(gr, n) THEN "FIXED_VALUE_BOUNDARY"
        ELSE "CORE_NODE" ]

\* Neighbours in landlab's order east, north, west, south; -1 where there is none.
neighbors_at_node(gr, n) ==
    << IF ColOf(gr, n) < gr.cols - 1 THEN n + 1 ELSE -1,
       IF RowOf(gr, n) < gr.rows - 1 THEN n + gr.cols ELSE -1,
       IF ColOf(gr, n) > 0 THEN n - 1 ELSE -1,
       IF RowOf(gr, n) > 0 THEN n - gr.cols ELSE -1 >>

Links(gr) ==
    { <<n, n + 1>> : n \in { m \in Nodes(gr) : ColOf(gr, m) < gr.cols - 1 } }
    \cup { <<n, n + gr.cols>> : n \in { m \in Nodes(gr) : RowOf(gr, m) < gr.rows - 1 } }

node_at_link_tail(l) == l[1]

node_at_link_head(l) == l[2]

length_of_link == 1

VARIABLES
    grid,                     \* the grid handed to the component: kind and shape
    status_at_node,           \* grid.status_at_node
    z,                        \* grid.at_node['topographic__elevation']
    Qwater_in,                \* grid.at_node['water__discharge_in']
    method,                   \* the routing method named in __init__'s **kwds
    equation,                 \* self.equation
    surface_water__depth,     \* grid.at_node['surface_water__depth']
    g_link,                   \* run_one_step's local g
    flow__potential,          \* grid.at_node['flow__potential'], <<>> until added
    surface_water__discharge, \* grid.at_node['surface_water__discharge']
    pc,                       \* where the component is
    K,                        \* self._K, <<>> while no component exists
    prevK,                    \* self._prevK
    Qw,                       \* self._Qw, the per-node discharge buffer
    discharges_at_link,       \* self._discharges_at_link
    outgoing_sum,             \* run_one_step's local outgoing_sum
    pos_incoming_link_grads,  \* run_one_step's local pos_incoming_link_grads
    prev_K,                   \* run_one_step's local prev_K
    mismatch,                 \* run_one_step's local mismatch
    K_entry,                  \* self._K as the current call found it
    iters,                    \* passes of the while loop made by the current call
    calls                     \* calls of run_one_step started so far

\* NormalFault (src/landlab/components/normal_fault/normal_fault.py) and the
\* node fields of the grid it is built on.
VARIABLES
    at_node,                  \* grid.at_node: field name -> node array
    nf_pc,                    \* where the NormalFault is
    init_args,                \* the faulted_surface and fault_dip_angle __init__ was given
    surfaces,                 \* the keys of self.surfaces (the arrays are the grid's)
    not_yet_instantiated,     \* self._not_yet_instantiated
    include_boundaries,       \* self.include_boundaries
    throw_time,               \* self.throw_time
    throw_rate,               \* self.throw_rate
    current_time,             \* self.current_time
    faulted_nodes,            \* self.faulted_nodes, as the set of nodes flagged True
    faulted_at_init,          \* self.faulted_nodes as __init__ left it
    at_node_before,           \* grid.at_node as the last call of run_one_step found it
    surfaces_in_call,         \* the keys of self.surfaces the last call uplifted
    rate_applied,             \* current_uplift_rate of the last call
    time_before,              \* self.current_time as the last call found it
    dts                       \* the dt of every call of run_one_step made, in order

fault_vars == << at_node, nf_pc, init_args, surfaces, not_yet_instantiated, include_boundaries,
                 throw_time, throw_rate, current_time, faulted_nodes, faulted_at_init,
                 at_node_before, surfaces_in_call, rate_applied, time_before, dts >>

vars == << grid, status_at_node, z, Qwater_in, method, equation,
           surface_water__depth, g_link, flow__potential,
           surface_water__discharge, pc, K, prevK, Qw, discharges_at_link,
           outgoing_sum, pos_incoming_link_grads, prev_K, mismatch, K_entry,
           iters, calls, fault_vars >>

\* The variables of the DischargeDiffuser and of the fields it reads.
diffuser_vars == << z, Qwater_in, method, equation, surface_water__depth, g_link,
                    flow__potential, surface_water__discharge, pc, K, prevK, Qw,
                    discharges_at_link, outgoing_sum, pos_incoming_link_grads,
                    prev_K, mismatch, K_entry, iters, calls >>

status_at_link(l) ==
    LET a == status_at_node[node_at_link_tail(l)]
        b == status_at_node[node_at_link_head(l)]
    IN  IF \/ a = "CORE_NODE" /\ b = "CORE_NODE"
           \/ a = "CORE_NODE" /\ b = "FIXED_VALUE_BOUNDARY"
           \/ a = "FIXED_VALUE_BOUNDARY" /\ b = "CORE_NODE"
        THEN "ACTIVE_LINK"
        ELSE "INACTIVE_LINK"

\* The link in slot k of node n (tail first) and whether it exists.
HasLink(n, k) == neighbors_at_node(grid, n)[k] # -1

LinkAt(n, k) ==
    IF k \in {1, 2} THEN <<n, neighbors_at_node(grid, n)[k]>>
    ELSE <<neighbors_at_node(grid, n)[k], n>>

\* -1 where the active link leaves n (n is its tail), 1 where it enters, 0 otherwise.
active_link_dirs_at_node(n, k) ==
    IF ~HasLink(n, k) \/ status_at_link(LinkAt(n, k)) # "ACTIVE_LINK" THEN 0
    ELSE IF k \in {1, 2} THEN -1 ELSE 1

calc_grad_at_link(l) ==
    Div(FromInt(z[node_at_link_head(l)] - z[node_at_link_tail(l)]),
        FromInt(length_of_link))

tail_or_head_of_max(l) ==
    IF z[node_at_link_tail(l)] > z[node_at_link_head(l)]
    THEN node_at_link_tail(l) ELSE node_at_link_head(l)

map_value_at_max_node_to_link(vals, l) == vals[tail_or_head_of_max(l)]

(***************************************************************************)
(* DischargeDiffuser.                                                      *)
(***************************************************************************)
min_slope_thresh == Norm(1, 1, -24)

tolerance == Norm(1, 1, -6)

initial_mismatch == FromInt(10000)

MinNodeRows == 3

MinNodeColumns == 3

zeros(gr) == [ n \in Nodes(gr) |-> Zero ]

\* Mutant: the gradient taken from the head of the link to its tail.
g_TailMinusHead(l) ==
    IF equation # "default" THEN SignedSqrt(Neg(calc_grad_at_link(l)))
    ELSE Neg(calc_grad_at_link(l))

\* Lines 224-226: the link gradients; their square roots, sign kept, unless
\* the equation is 'default'.
g(l) ==
    IF equation # "default" THEN SignedSqrt(calc_grad_at_link(l))
    ELSE calc_grad_at_link(l)

link_grad_at_node_w_dir(n, k) ==
    IF active_link_dirs_at_node(n, k) = 0 THEN Zero
    ELSE Mul(g(LinkAt(n, k)), FromInt(active_link_dirs_at_node(n, k)))

\* Mutant: the outgoing gradients summed without clipping at zero.
OutgoingSum_Unclipped ==
    [ n \in Nodes(grid) |->
        Add(SumSeq([ k \in 1..4 |-> link_grad_at_node_w_dir(n, k) ]),
            min_slope_thresh) ]

\* Lines 236-238: the two arrays run_one_step derives from the gradients.
OutgoingSum ==
    [ n \in Nodes(grid) |->
        Add(SumSeq([ k \in 1..4 |-> Clip0(link_grad_at_node_w_dir(n, k)) ]),
            min_slope_thresh) ]

PosIncomingLinkGrads ==
    [ n \in Nodes(grid) |->
        [ k \in 1..4 |-> Clip0(Neg(link_grad_at_node_w_dir(n, k))) ] ]

\* self._K[grid.neighbors_at_node]: index -1 reads the last node.
K_link_ends(Kf, n, k) ==
    IF HasLink(n, k) THEN Kf[neighbors_at_node(grid, n)[k]]
    ELSE Kf[number_of_nodes(grid) - 1]

\* Mutant: the neighbours' contributions left out of the incoming sum.
incoming_K_sum_FloorOnly(Kf, n) == min_slope_thresh

incoming_K_sum(Kf, n) ==
    Add(SumSeq([ k \in 1..4 |->
                   Mul(pos_incoming_link_grads[n][k], K_link_ends(Kf, n, k)) ]),
        min_slope_thresh)

\* Mutant: the influx subtracted instead of added.
NextK_InfluxSubtracted(Kf, Qf) ==
    [ n \in Nodes(grid) |->
        Div(Sub(incoming_K_sum(Kf, n), FromInt(Qf[n])), outgoing_sum[n]) ]

\* One pass of the loop body: the new self._K from the old one.
NextK(Kf, Qf) ==
    [ n \in Nodes(grid) |->
        Div(Add(incoming_K_sum(Kf, n), FromInt(Qf[n])), outgoing_sum[n]) ]

RECURSIVE SumSquares(_)
SumSquares(s) ==
    IF s = <<>> THEN Zero
    ELSE AddTo(SumSquares(SubSeq(s, 1, Len(s) - 1)),
               Mul(s[Len(s)], s[Len(s)]), SumDigits)

\* Mutant: the new iterate measured against nothing instead of the previous one.
SquaredDifference_OfIterate(Kf, Pf) ==
    SumSquares([ i \in 1..number_of_nodes(grid) |-> Kf[i - 1] ])

\* np.sum(np.square(self._K - prev_K))
SquaredDifference(Kf, Pf) ==
    SumSquares([ i \in 1..number_of_nodes(grid) |-> Sub(Kf[i - 1], Pf[i - 1]) ])

\* Mutant: line 251, the zeroing of inactive links, left out.
UpwindDischarge_Unmasked(Kf, l) == Mul(map_value_at_max_node_to_link(Kf, l), g(l))

\* Lines 249-251: one link's entry of self._discharges_at_link.
UpwindDischarge(Kf, l) ==
    IF status_at_link(l) = "INACTIVE_LINK" THEN Zero
    ELSE Mul(map_value_at_max_node_to_link(Kf, l), g(l))

(***************************************************************************)
(* Inputs: the grids, elevation fields and influx fields explored.         *)
(***************************************************************************)
RasterGrid(r, c) == [raster |-> TRUE, rows |-> r, cols |-> c]

HexGrid == [raster |-> FALSE, rows |-> 3, cols |-> 3]

SmallGrid == RasterGrid(3, 3)

LongGrid == RasterGrid(3, 4)

TooSmallGrids == { RasterGrid(2, 3), RasterGrid(3, 2), RasterGrid(2, 2) }

ElevScales == {1, 2000}

MiddleRow(gr) == { n \in Nodes(gr) : RowOf(gr, n) = 1 }

WestEnd(gr) == { n \in MiddleRow(gr) : ColOf(gr, n) = 0 }

EastEnd(gr) == { n \in MiddleRow(gr) : ColOf(gr, n) = gr.cols - 1 }

\* Any heights on the middle row and on the top edge's interior, 0 elsewhere.
FreeNodes(gr) ==
    MiddleRow(gr)
    \cup { n \in Nodes(gr) : RowOf(gr, n) = gr.rows - 1 /\ ColOf(gr, n) \notin {0, gr.cols - 1} }

FreeElevations(gr) ==
    { [ n \in Nodes(gr) |-> IF n \in FreeNodes(gr) THEN h[n] ELSE 0 ] :
        h \in [FreeNodes(gr) -> 0..MaxElev] }

\* Heights that depend on the column only, times a vertical scale.
ProfileElevations(gr) ==
    { [ n \in Nodes(gr) |-> s * p[ColOf(gr, n)] ] :
        p \in [0..(gr.cols - 1) -> 0..MaxElev], s \in ElevScales }

\* The profiles that never rise from west to east.
DownhillElevations(gr) ==
    { h \in ProfileElevations(gr) :
        \A n \in Nodes(gr) : ColOf(gr, n) > 0 => h[n] <= h[n - 1] }

\* A ramp of one step of height s per column, falling eastward or westward.
RampElevations(gr) ==
    { [ n \in Nodes(gr) |-> s * (gr.cols - 1 - ColOf(gr, n)) ] : s \in ElevScales }
    \cup { [ n \in Nodes(gr) |-> s * ColOf(gr, n) ] : s \in ElevScales }

SourceSets(gr) ==
    { Nodes(gr),
      { n \in Nodes(gr) : ~IsPerimeter(gr, n) },
      WestEnd(gr) \cup EastEnd(gr),
      WestEnd(gr) }

InfluxFields(gr) ==
    { [ n \in Nodes(gr) |-> IF n \in S THEN q ELSE 0 ] :
        S \in SourceSets(gr), q \in 0..MaxQ }

UniformInfluxFields(gr) ==
    { [ n \in Nodes(gr) |-> q ] : q \in (-1)..MaxQ }

AllEdges == {"top", "bottom", "left", "right"}

Scenario(gr, closed, zf, qf) ==
    [grid |-> gr, closed |-> closed, z |-> zf, Q |-> qf]

Scenarios ==
    { Scenario(gr, {}, [n \in Nodes(gr) |-> 0], [n \in Nodes(gr) |-> 0]) :
        gr \in TooSmallGrids \cup {HexGrid} }
    \cup { Scenario(SmallGrid, {}, zf, qf) :
             zf \in FreeElevations(SmallGrid), qf \in UniformInfluxFields(SmallGrid) }
    \cup { Scenario(SmallGrid, {"top", "bottom"}, zf, qf) :
             zf \in ProfileElevations(SmallGrid), qf \in InfluxFields(SmallGrid) }
    \cup { Scenario(LongGrid, {"top", "bottom"}, zf, qf) :
             zf \in DownhillElevations(LongGrid) \cup RampElevations(LongGrid),
             qf \in InfluxFields(LongGrid) }
    \cup { Scenario(SmallGrid, AllEdges, zf, qf) :
             zf \in DownhillElevations(SmallGrid), qf \in UniformInfluxFields(SmallGrid) }

\* No NormalFault and no field of its grid.
NoFault ==
    /\ at_node = <<>>
    /\ nf_pc = "unbuilt"
    /\ init_args = <<>>
    /\ surfaces = {}
    /\ not_yet_instantiated = <<>>
    /\ include_boundaries = FALSE
    /\ throw_time = <<>>
    /\ throw_rate = <<>>
    /\ current_time = Zero
    /\ faulted_nodes = {}
    /\ faulted_at_init = {}
    /\ at_node_before = <<>>
    /\ surfaces_in_call = {}
    /\ rate_applied = Zero
    /\ time_before = Zero
    /\ dts = <<>>

\* The keywords and attributes explored: a routing method handed to __init__
\* ("none": no such keyword) and the equation option.
Methods == {"Steepest", "D8", "d8", "Nope"}

Equations == {"default", "Chezy", "Manning"}

Configured(sc, m, e) ==
    [grid |-> sc.grid, closed |-> sc.closed, z |-> sc.z, Q |-> sc.Q,
     method |-> m, equation |-> e]

MethodScenarios ==
    { Scenario(gr, {}, [n \in Nodes(gr) |-> 0], [n \in Nodes(gr) |-> 1]) :
        gr \in {SmallGrid, HexGrid} }

\* Column profiles whose neighbouring columns differ by 0 or SquareStep, under
\* an influx that is the same at every node.
SquareStep == 4

EquationScenarios ==
    { Scenario(SmallGrid, {"top", "bottom"}, [ n \in Nodes(SmallGrid) |-> SquareStep * zf[n] ], qf) :
        zf \in { h \in ProfileElevations(SmallGrid) :
                   \A n \in Nodes(SmallGrid) :
                       /\ h[n] <= MaxElev
                       /\ ColOf(SmallGrid, n) > 0 => Abs(h[n] - h[n - 1]) <= 1 },
        qf \in { q \in InfluxFields(SmallGrid) :
                   \A n \in Nodes(SmallGrid) : q[n] = q[0] } }

ConfiguredScenarios ==
    { Configured(sc, "none", "default") : sc \in Scenarios }
    \cup { Configured(sc, m, "default") : sc \in MethodScenarios, m \in Methods }
    \cup { Configured(sc, "none", e) : sc \in EquationScenarios, e \in Equations \ {"default"} }

Init ==
    \E sc \in ConfiguredScenarios :
        /\ grid = sc.grid
        /\ status_at_node = StatusField(sc.grid, sc.closed)
        /\ z = sc.z
        /\ Qwater_in = sc.Q
        /\ method = sc.method
        /\ equation = sc.equation
        /\ surface_water__depth = <<>>
        /\ g_link = <<>>
        /\ flow__potential = <<>>
        /\ surface_water__discharge = <<>>
        /\ pc = "unbuilt"
        /\ K = <<>>
        /\ prevK = <<>>
        /\ Qw = <<>>
        /\ discharges_at_link = <<>>
        /\ outgoing_sum = <<>>
        /\ pos_incoming_link_grads = <<>>
        /\ prev_K = <<>>
        /\ mismatch = Zero
        /\ K_entry = <<>>
        /\ iters = 0
        /\ calls = 0
        /\ NoFault

\* Mutant: the column assertion of line 126 left out.
GridAccepted_RowsOnly ==
    /\ grid.raster
    /\ grid.rows >= MinNodeRows

\* __init__ (lines 121-176): the grid checks, then the buffers and output fields.
GridAccepted ==
    /\ grid.raster
    /\ grid.rows >= MinNodeRows
    /\ grid.cols >= MinNodeColumns

Construct ==
    /\ pc = "unbuilt"
    /\ IF GridAccepted
       THEN /\ pc' = "ready"
            /\ K' = zeros(grid)
            /\ prevK' = zeros(grid)
            /\ Qw' = zeros(grid)
            /\ flow__potential' = zeros(grid)
            /\ surface_water__discharge' = zeros(grid)
       ELSE /\ pc' = "rejected"
            /\ UNCHANGED <<K, prevK, Qw, flow__potential, surface_water__discharge>>
    /\ UNCHANGED <<grid, status_at_node, z, Qwater_in, method, equation,
                   surface_water__depth, g_link, discharges_at_link,
                   outgoing_sum, pos_incoming_link_grads, prev_K, mismatch,
                   K_entry, iters, calls, fault_vars>>

\* run_one_step up to the loop (lines 183-238).
EnterRunOneStep ==
    /\ pc \in {"ready", "returned"}
    /\ calls < MaxCalls
    /\ pc' = "loop"
    /\ mismatch' = initial_mismatch
    /\ outgoing_sum' = OutgoingSum
    /\ pos_incoming_link_grads' = PosIncomingLinkGrads
    /\ prev_K' \in {prevK, K}
    /\ K_entry' = K
    /\ iters' = 0
    /\ calls' = calls + 1
    /\ g_link' = [ l \in Links(grid) |-> g(l) ]
    /\ UNCHANGED <<grid, status_at_node, z, Qwater_in, method, equation,
                   surface_water__depth, flow__potential,
                   surface_water__discharge, K, prevK, Qw, discharges_at_link,
                   fault_vars>>

\* One pass of "while mismatch > 1.e-6" (lines 241-247).
LoopPass ==
    /\ pc = "loop"
    /\ Gt(mismatch, tolerance)
    /\ K' = NextK(K, Qwater_in)
    /\ mismatch' = SquaredDifference(K', prev_K)
    /\ prev_K' = K'
    /\ iters' = iters + 1
    /\ UNCHANGED <<grid, status_at_node, z, Qwater_in, method, equation,
                   surface_water__depth, g_link, flow__potential,
                   surface_water__discharge, pc, prevK, Qw, discharges_at_link,
                   outgoing_sum, pos_incoming_link_grads, K_entry, calls,
                   fault_vars>>

\* Lines 293-305: the depth field, derived for 'Chezy' and 'Manning' from the
\* grid field flow__potential.  That field holds the zeros of line 139, and 0
\* to the power 2/3 or 0.6 is 0 whatever chezy_C, manning_n and
\* equiv_circ_diam are; no other potential is ever read here.
DepthField ==
    IF equation \in {"Chezy", "Manning"}
    THEN [ n \in Nodes(grid) |-> CASE flow__potential[n] = Zero -> Zero ]
    ELSE surface_water__depth

\* Mutant: the potential stored without the outgoing sum as its factor.
NodeDischarge_PotentialOnly(Kf, n) == Kf[n]

\* Line 288: one node's entry of self._Qw.
NodeDischarge(Kf, n) == Mul(Kf[n], outgoing_sum[n])

\* The loop's exit and the post-processing (lines 249-251 and 288-305).
LoopExit ==
    /\ pc = "loop"
    /\ ~Gt(mismatch, tolerance)
    /\ discharges_at_link' = [ l \in Links(grid) |-> UpwindDischarge(K, l) ]
    /\ Qw' = [ n \in Nodes(grid) |-> NodeDischarge(K, n) ]
    /\ pc' = "returned"
    /\ surface_water__depth' = DepthField
    /\ UNCHANGED <<grid, status_at_node, z, Qwater_in, method, equation, g_link,
                   flow__potential,
                   surface_water__discharge, K, prevK, outgoing_sum,
                   pos_incoming_link_grads, prev_K, mismatch, K_entry, iters, calls,
                   fault_vars>>

Next ==
    \/ Construct
    \/ EnterRunOneStep
    \/ LoopPass
    \/ LoopExit

Spec == Init /\ [][Next]_vars

(***************************************************************************)
(* Vocabulary of the properties.                                           *)
(***************************************************************************)
NonClosed(n) == status_at_node[n] # "CLOSED_BOUNDARY"

HasOpenNode == \E n \in Nodes(grid) : NonClosed(n)

InfluxNonnegative == \A n \in Nodes(grid) : Qwater_in[n] >= 0

AbsNum(a) == IF a.n < 0 THEN Neg(a) ELSE a

Within(a, b, tol) == ~Gt(AbsNum(Sub(a, b)), tol)

CoreNodes == { n \in Nodes(grid) : status_at_node[n] = "CORE_NODE" }

\* What flows into node n from its higher neighbours under the potential Kf.
Inflow(Kf, n) ==
    SumSeq([ k \in 1..4 |->
               IF HasLink(n, k) /\ status_at_link(LinkAt(n, k)) = "ACTIVE_LINK"
                  /\ z[neighbors_at_node(grid, n)[k]] > z[n]
               THEN Mul(AbsNum(g_link[LinkAt(n, k)]),
                        Kf[neighbors_at_node(grid, n)[k]])
               ELSE Zero ])

\* The while loop of lines 241-247 run to its exit, as a function of its inputs.
RECURSIVE SolveLoop(_, _, _, _)
SolveLoop(Kf, Pf, mm, Qf) ==
    IF Gt(mm, tolerance)
    THEN CHOOSE r \in { SolveLoop(Kn, Kn, m, Qf) :
                            <<Kn, m>> \in { <<Kx, SquaredDifference(Kx, Pf)>> :
                                               Kx \in {NextK(Kf, Qf)} } } : TRUE
    ELSE Kf

TwiceInflux == [ n \in Nodes(grid) |-> 2 * Qwater_in[n] ]

\* K of a first call made with the influx doubled.
K_of_twice_influx == SolveLoop(zeros(grid), zeros(grid), initial_mismatch, TwiceInflux)

\* A 1-D chain: top and bottom edges closed, the middle row strictly monotonic.
ChainGrid ==
    \A n \in Nodes(grid) : NonClosed(n) <=> n \in MiddleRow(grid)

FallsEastward == \A n \in MiddleRow(grid) : ColOf(grid, n) > 0 => z[n] < z[n - 1]

FallsWestward == \A n \in MiddleRow(grid) : ColOf(grid, n) > 0 => z[n] > z[n - 1]

RankFromTop(n) ==
    IF FallsEastward THEN ColOf(grid, n) + 1 ELSE grid.cols - ColOf(grid, n)

UnitInflux == \A n \in Nodes(grid) : Qwater_in[n] = 1

(***************************************************************************)
(* NormalFault.  A surface is a node field of the grid; self.surfaces      *)
(* holds references to the grid's own arrays, so the component's writes    *)
(* are writes to at_node.                                                  *)
(***************************************************************************)
FaultGrid == RasterGrid(4, 4)

\* The default status, and one interior node turned into a boundary node.
FaultStatusFields ==
    { StatusField(FaultGrid, {}),
      [ StatusField(FaultGrid, {}) EXCEPT ![5] = "CLOSED_BOUNDARY" ] }

FieldNames == {"topographic__elevation", "bedrock__elevation"}

\* A flat surface and one on which every node has its own height.
FieldValues(gr) ==
    { [ n \in Nodes(gr) |-> Zero ], [ n \in Nodes(gr) |-> FromInt(n) ] }

InitialFields(gr) ==
    { [ f \in {"topographic__elevation"} |-> v ] : v \in FieldValues(gr) }
    \cup { [ f \in FieldNames |-> v ] : v \in FieldValues(gr) }

\* faulted_surface: a field name, or a list of field names.
FaultedSurfaceArgs ==
    { [list |-> FALSE, names |-> <<"topographic__elevation">>],
      [list |-> FALSE, names |-> <<"bedrock__elevation">>],
      [list |-> TRUE, names |-> <<"topographic__elevation", "bedrock__elevation">>] }

\* fault_throw_rate_through_time: the default of lines 69-70 and a history that
\* starts flat and then ramps, as the one of the docstring example does.
ThrowHistories ==
    { [time |-> <<FromInt(0), FromInt(10)>>, rate |-> <<Norm(1, 1, -3), Norm(1, 1, -3)>>],
      [time |-> <<FromInt(0), FromInt(1), FromInt(3)>>,
       rate |-> <<Zero, Zero, FromInt(4)>>] }

DipAngles == {90, 100}

\* fault_trace: the default (striking NE), one striking N, one W and one SE.
FaultTraces ==
    { [x1 |-> 0, y1 |-> 0, x2 |-> 1, y2 |-> 1],
      [x1 |-> 2, y1 |-> 0, x2 |-> 2, y2 |-> 1],
      [x1 |-> 1, y1 |-> 1, x2 |-> 0, y2 |-> 1],
      [x1 |-> 0, y1 |-> 3, x2 |-> 1, y2 |-> 2] }

x_of_node(gr, n) == ColOf(gr, n)

y_of_node(gr, n) == RowOf(gr, n)

\* np.mod(np.arctan2(vy, vx), TWO_PI) of integer vectors, compared exactly: an
\* angle lies in [0, pi) or in [pi, 2 pi), and within a half the cross product
\* orders two angles.  arctan2(0, 0) is 0, the angle of (1, 0).
Dir(v) == IF v = <<0, 0>> THEN <<1, 0>> ELSE v

UpperHalf(v) == Dir(v)[2] > 0 \/ (Dir(v)[2] = 0 /\ Dir(v)[1] > 0)

Cross(a, b) == Dir(a)[1] * Dir(b)[2] - Dir(a)[2] * Dir(b)[1]

AngleLess(a, b) ==
    \/ UpperHalf(a) /\ ~UpperHalf(b)
    \/ UpperHalf(a) = UpperHalf(b) /\ Cross(a, b) > 0

AngleIsPi(v) == Dir(v)[2] = 0 /\ Dir(v)[1] < 0

Opposite(v) == << -Dir(v)[1], -Dir(v)[2] >>

\* Lines 248-261: the point of the trace the node angles are measured from.
\* The traces explored have dx in {-1, 0, 1}, so dy/dx is an integer.
dy_over_dx(tr) ==
    IF tr.x2 - tr.x1 = 0 THEN 0
    ELSE IF tr.x2 - tr.x1 < 0 THEN (tr.y1 - tr.y2) \div (tr.x1 - tr.x2)
    ELSE (tr.y2 - tr.y1) \div (tr.x2 - tr.x1)

fault_trace_y_intercept(tr) ==
    IF tr.x2 - tr.x1 = 0 THEN 0 ELSE tr.y1 - dy_over_dx(tr) * tr.x1

fault_trace_x_intercept(tr) == IF tr.x2 - tr.x1 = 0 THEN tr.x2 ELSE 0

\* Lines 270-283: is node n on the side of the trace that is faulted?
OnFaultedSide(gr, tr, n) ==
    LET strike == << tr.x2 - tr.x1, tr.y2 - tr.y1 >>
        pn == << x_of_node(gr, n) - fault_trace_x_intercept(tr),
                 y_of_node(gr, n) - fault_trace_y_intercept(tr) >>
    IN  IF UpperHalf(strike) \/ AngleIsPi(strike)
        THEN /\ AngleLess(strike, pn)
             /\ AngleIsPi(strike) \/ ~AngleLess(Opposite(strike), pn)
        ELSE \/ AngleLess(strike, pn)
             \/ ~AngleLess(Opposite(strike), pn)

\* np.interp(x, xp, fp): linear between the points, constant outside them.
RECURSIVE interp(_, _, _)
interp(x, xp, fp) ==
    IF ~Gt(x, xp[1]) THEN fp[1]
    ELSE IF Len(xp) = 1 THEN fp[1]
    ELSE IF Gt(xp[2], x)
         THEN Add(fp[1], Div(Mul(Sub(fp[2], fp[1]), Sub(x, xp[1])), Sub(xp[2], xp[1])))
         ELSE interp(x, Tail(xp), Tail(fp))

\* Lines 263-287.
FaultedNodeIds(gr, tr, ib) ==
    { n \in (IF ib THEN Nodes(gr) ELSE CoreNodes) : OnFaultedSide(gr, tr, n) }

\* What __init__ leaves when it raises nothing (lines 209-287).
Constructed(fs, th, tr, ib) ==
    /\ nf_pc' = "ready"
    /\ surfaces' = { fs.names[i] : i \in { j \in DOMAIN fs.names : fs.names[j] \in DOMAIN at_node } }
    /\ not_yet_instantiated' = SelectSeq(fs.names, LAMBDA f : f \notin DOMAIN at_node)
    /\ include_boundaries' = ib
    /\ throw_time' = th.time
    /\ throw_rate' = th.rate
    /\ current_time' = Zero
    /\ faulted_nodes' = FaultedNodeIds(grid, tr, ib)
    /\ faulted_at_init' = faulted_nodes'

\* NormalFault.__init__: a single field name that is no field of the grid
\* raises FieldError (lines 226-227, outside any try), a dip above 90 raises
\* ValueError (lines 229-231).
FaultConstruct ==
    /\ nf_pc = "unbuilt"
    /\ \E fs \in FaultedSurfaceArgs, th \in ThrowHistories, dip \in DipAngles,
          tr \in FaultTraces, ib \in BOOLEAN :
          /\ init_args' = [faulted_surface |-> fs, fault_dip_angle |-> dip]
          /\ IF (~fs.list /\ fs.names[1] \notin DOMAIN at_node) \/ dip > 90
             THEN /\ nf_pc' = "rejected"
                  /\ UNCHANGED <<surfaces, not_yet_instantiated, include_boundaries,
                                 throw_time, throw_rate, current_time, faulted_nodes,
                                 faulted_at_init>>
             ELSE Constructed(fs, th, tr, ib)
    /\ UNCHANGED <<grid, status_at_node, diffuser_vars, at_node, at_node_before,
                   surfaces_in_call, rate_applied, time_before, dts>>

\* The grid's user adds a node field that did not exist.
AddField ==
    /\ \E f \in FieldNames \ DOMAIN at_node, v \in FieldValues(grid) :
          at_node' = [ h \in DOMAIN at_node \cup {f} |-> IF h = f THEN v ELSE at_node[h] ]
    /\ UNCHANGED <<grid, status_at_node, diffuser_vars, nf_pc, init_args, surfaces,
                   not_yet_instantiated, include_boundaries, throw_time, throw_rate,
                   current_time, faulted_nodes, faulted_at_init, at_node_before,
                   surfaces_in_call, rate_applied, time_before, dts>>

\* Lines 298-305: the surfaces of this call and the names still waited for.
SurfacesNow ==
    surfaces \cup { not_yet_instantiated[i] :
                      i \in { j \in DOMAIN not_yet_instantiated :
                                not_yet_instantiated[j] \in DOMAIN at_node } }

StillNotInstantiated ==
    SelectSeq(not_yet_instantiated, LAMBDA f : f \notin DOMAIN at_node)

\* Line 315.
current_uplift_rate(dt) == interp(current_time, throw_time, throw_rate)

\* Mutant: every node of a faulted surface uplifted.
Uplifted_EveryNode(fields, surfs, dt) ==
    [ f \in DOMAIN fields |->
        IF f \in surfs
        THEN [ n \in Nodes(grid) |-> Add(fields[f][n], Mul(current_uplift_rate(dt), FromInt(dt))) ]
        ELSE fields[f] ]

\* Lines 318-320: the fields after the uplift of the faulted nodes.
Uplifted(fields, surfs, dt) ==
    [ f \in DOMAIN fields |->
        IF f \in surfs
        THEN [ n \in Nodes(grid) |->
                 IF n \in faulted_nodes
                 THEN Add(fields[f][n], Mul(current_uplift_rate(dt), FromInt(dt)))
                 ELSE fields[f][n] ]
        ELSE fields[f] ]

\* array[grid.neighbors_at_node]: index -1 reads the last node.
NeighborOrLast(n, k) ==
    IF HasLink(n, k) THEN neighbors_at_node(grid, n)[k] ELSE number_of_nodes(grid) - 1

\* Lines 332-342.
faulted_boundaries == faulted_nodes \ CoreNodes

neighbor_for_averaging(n, k) ==
    NeighborOrLast(n, k) \in faulted_nodes /\ NeighborOrLast(n, k) \in CoreNodes

\* Lines 351-352: exactly one neighbour slot is faulted and core.
averaged(n) ==
    Cardinality({ k \in 1..4 : neighbor_for_averaging(n, k) }) = 1

\* Lines 357-364: np.nanmean over the neighbours of n in the copy made before
\* the uplift.  Only the slots without a neighbour are NaN: at line 362
\* "neighbor_for_averaging is False" is the Python value False, and an
\* assignment through the index False changes nothing.
MeanOfNeighbors(before, n) ==
    LET nbrs == { k \in 1..4 : HasLink(n, k) }
        vals == [ k \in 1..4 |-> IF k \in nbrs THEN before[neighbors_at_node(grid, n)[k]] ELSE Zero ]
    IN  Div(SumSeq(vals), FromInt(Cardinality(nbrs)))

BoundariesAveraged(fields, before, surfs) ==
    [ f \in DOMAIN fields |->
        IF f \in surfs
        THEN [ n \in Nodes(grid) |->
                 IF n \in faulted_boundaries /\ averaged(n)
                 THEN MeanOfNeighbors(before[f], n)
                 ELSE fields[f][n] ]
        ELSE fields[f] ]

\* NormalFault.run_one_step(dt).  With include_boundaries set, line 372
\* evaluates any(averaged is False), that is any(False), which raises
\* TypeError: the call ends there, after the uplift and the averaging of lines
\* 353-364 and before the time is advanced; lines 373-383 are never reached.
FaultRunOneStep ==
    /\ nf_pc \in {"ready", "raised"}
    /\ Len(dts) < MaxFaultCalls
    /\ \E dt \in 1..MaxDt :
          /\ surfaces' = SurfacesNow
          /\ not_yet_instantiated' = StillNotInstantiated
          /\ rate_applied' = current_uplift_rate(dt)
          /\ dts' = Append(dts, dt)
          /\ IF include_boundaries
             THEN /\ at_node' = BoundariesAveraged(Uplifted(at_node, SurfacesNow, dt),
                                                   at_node, SurfacesNow)
                  /\ nf_pc' = "raised"
                  /\ current_time' = current_time
             ELSE /\ at_node' = Uplifted(at_node, SurfacesNow, dt)
                  /\ nf_pc' = "ready"
                  /\ current_time' = Add(current_time, FromInt(dt))
    /\ at_node_before' = at_node
    /\ surfaces_in_call' = SurfacesNow
    /\ time_before' = current_time
    /\ UNCHANGED <<grid, status_at_node, diffuser_vars, init_args, include_boundaries,
                   throw_time, throw_rate, faulted_nodes, faulted_at_init>>

\* No DischargeDiffuser and none of its fields.
NoDiffuser ==
    /\ z = <<>>
    /\ Qwater_in = <<>>
    /\ method = "none"
    /\ equation = "default"
    /\ surface_water__depth = <<>>
    /\ g_link = <<>>
    /\ flow__potential = <<>>
    /\ surface_water__discharge = <<>>
    /\ pc = "unbuilt"
    /\ K = <<>>
    /\ prevK = <<>>
    /\ Qw = <<>>
    /\ discharges_at_link = <<>>
    /\ outgoing_sum = <<>>
    /\ pos_incoming_link_grads = <<>>
    /\ prev_K = <<>>
    /\ mismatch = Zero
    /\ K_entry = <<>>
    /\ iters = 0
    /\ calls = 0

FaultInit ==
    /\ grid = FaultGrid
    /\ status_at_node \in FaultStatusFields
    /\ at_node \in InitialFields(FaultGrid)
    /\ nf_pc = "unbuilt"
    /\ init_args = <<>>
    /\ surfaces = {}
    /\ not_yet_instantiated = <<>>
    /\ include_boundaries = FALSE
    /\ throw_time = <<>>
    /\ throw_rate = <<>>
    /\ current_time = Zero
    /\ faulted_nodes = {}
    /\ faulted_at_init = {}
    /\ at_node_before = <<>>
    /\ surfaces_in_call = {}
    /\ rate_applied = Zero
    /\ time_before = Zero
    /\ dts = <<>>
    /\ NoDiffuser

FaultNext ==
    \/ FaultConstruct
    \/ AddField
    \/ FaultRunOneStep

FaultSpec == FaultInit /\ [][FaultNext]_vars

(***************************************************************************)
(* Properties.                                                             *)
(***************************************************************************)

C2_MassConservation ==
    pc = "returned"
        => \A n \in Nodes(grid) :
              NonClosed(n)
                  => Within(Add(Inflow(K, n), FromInt(Qwater_in[n])),
                            Mul(K[n], outgoing_sum[n]), tolerance)

LongestPath == Cardinality(CoreNodes) + 2

C5_Idempotent ==
    (pc = "returned" /\ calls >= 2)
        => /\ iters <= 1
           /\ ~Gt(SquaredDifference(K, K_entry), tolerance)

\* C6: with elevations and topology fixed and Q >= 0 everywhere, the K a
\* first call leaves for the influx 2*Q is >= the K it leaves for Q, at
\* every node.
C6_MonotoneInInflux ==
    (pc = "returned" /\ calls = 1 /\ InfluxNonnegative)
        => \A K2 \in {K_of_twice_influx} :
              \A n \in Nodes(grid) : Ge(K2[n], K[n])

C6_Witness ==
    /\ pc = "returned"
    /\ calls = 1
    /\ InfluxNonnegative
    /\ \E K2 \in {K_of_twice_influx} :
          \E n \in CoreNodes : Gt(K2[n], K[n])

C8_ResultsPublished ==
    pc = "returned"
        => /\ flow__potential = K
           /\ surface_water__discharge = Qw

\* C9: on a raster grid with fewer than 3 node rows or fewer than 3 node
\* columns, or on a non-raster grid, construction fails: no component and no K
\* buffer exists afterwards and no solve is ever started.
C9_UnsupportedGridRejected ==
    (~grid.raster \/ grid.rows < 3 \/ grid.cols < 3)
        => /\ pc \in {"unbuilt", "rejected"}
           /\ K = <<>>
           /\ prevK = <<>>
           /\ calls = 0

C9_Witness ==
    /\ pc = "rejected"
    /\ grid.raster
    /\ grid.rows >= 3
    /\ grid.cols < 3

\* C10: a grid whose every edge node is a closed boundary is rejected at
\* construction, before any run_one_step.
FullyClosedBoundary ==
    \A n \in Nodes(grid) : IsPerimeter(grid, n) => ~NonClosed(n)

C10_ClosedGridRejected ==
    FullyClosedBoundary => pc \in {"unbuilt", "rejected"}

\* C11: a routing method that is not a supported name ('Nope'), that is
\* wrongly cased ('d8'), or that is the diagonal method 'D8' on a grid without
\* diagonals, is rejected at construction, before any solve.
SupportedMethods == {"Steepest", "D8"}

InvalidMethodSelection ==
    /\ method # "none"
    /\ method \notin SupportedMethods \/ (method = "D8" /\ ~grid.raster)

C11_InvalidMethodRejected ==
    InvalidMethodSelection => pc \in {"unbuilt", "rejected"}

\* C12: with include_boundaries False no boundary node is a faulted node, and
\* after every call of run_one_step(dt), whatever calls came before, every
\* faulted node of every faulted surface is higher than the call found it by
\* exactly (the throw rate interpolated at the time the call found) * dt,
\* while every other node of every field is as the call found it.
LastDt == dts[Len(dts)]

C12_UpliftOfFaultedNodes ==
    (nf_pc = "ready" /\ ~include_boundaries)
        => /\ faulted_nodes \cap (Nodes(grid) \ CoreNodes) = {}
           /\ dts # <<>> =>
                \A f \in DOMAIN at_node_before : \A n \in Nodes(grid) :
                    at_node[f][n] =
                        IF f \in surfaces_in_call /\ n \in faulted_nodes
                        THEN Add(at_node_before[f][n],
                                 Mul(interp(time_before, throw_time, throw_rate),
                                     FromInt(LastDt)))
                        ELSE at_node_before[f][n]

C12_Witness ==
    /\ nf_pc = "ready"
    /\ ~include_boundaries
    /\ Len(dts) >= 2
    /\ rate_applied # Zero
    /\ surfaces_in_call = FieldNames
    /\ Cardinality(faulted_nodes) >= 2
    /\ \E n \in CoreNodes : n \notin faulted_nodes

\* C13: a faulted surface that is no field of the grid at construction, be it
\* given as a single name or inside a list, never makes construction fail, and
\* every call of run_one_step uplifts every named surface that was a field of
\* the grid when the call began.
NamedSurfaces ==
    { init_args.faulted_surface.names[i] : i \in DOMAIN init_args.faulted_surface.names }

C13_MissingSurfaceIgnored ==
    /\ nf_pc = "rejected" => init_args.fault_dip_angle > 90
    /\ (nf_pc \in {"ready", "raised"} /\ dts # <<>>)
           => \A f \in NamedSurfaces : f \in DOMAIN at_node_before => f \in surfaces_in_call

\* C14: with include_boundaries True a call of run_one_step completes
\* normally, and leaves every faulted boundary node that has an adjacent
\* faulted core node at the mean of the heights those neighbours had before
\* the uplift, and every other faulted boundary node at the mean of the
\* current heights of its adjacent faulted nodes.
Adjacent(n) == { neighbors_at_node(grid, n)[k] : k \in { j \in 1..4 : HasLink(n, j) } }

RECURSIVE SumOver(_, _)
SumOver(field, S) ==
    IF S = {} THEN Zero
    ELSE LET m == CHOOSE x \in S : TRUE
         IN  Add(field[m], SumOver(field, S \ {m}))

MeanOver(field, S) == Div(SumOver(field, S), FromInt(Cardinality(S)))

C14_BoundariesAveraged ==
    (include_boundaries /\ dts # <<>>)
        => /\ nf_pc = "ready"
           /\ \A f \in surfaces_in_call : \A n \in faulted_nodes \ CoreNodes :
                 LET fc == Adjacent(n) \cap faulted_nodes \cap CoreNodes
                     fa == Adjacent(n) \cap faulted_nodes
                 IN  IF fc # {} THEN at_node[f][n] = MeanOver(at_node_before[f], fc)
                     ELSE fa # {} => at_node[f][n] = MeanOver(at_node[f], fa)

\* C15: a closed node keeps, after every pass of the loop and after
\* run_one_step has returned, the K it had when the call began.
ClosedNodes == { n \in Nodes(grid) : ~NonClosed(n) }

C15_ClosedNodesKept ==
    pc \in {"loop", "returned"} => \A n \in ClosedNodes : K[n] = K_entry[n]

\* C16: K is all zeros at construction; the first pass of the first call
\* starts from that zero field and the first pass of a later call from the K
\* the previous call left, and the previous-iterate buffer the mismatch is
\* taken against starts equal to that seed.
C16_SeededFromPreviousCall ==
    /\ pc = "ready" => K = zeros(grid)
    /\ (pc = "loop" /\ iters = 0)
          => /\ calls = 1 => K = zeros(grid)
             /\ K = K_entry
             /\ prev_K = K

\* C17: the equation option has no feedback into the solve: a first call
\* leaves the K, and the link discharges, that the same call leaves under
\* 'default' for the same elevations, influx, topology and seed.
default_grad_at_node_w_dir(n, k) ==
    IF active_link_dirs_at_node(n, k) = 0 THEN Zero
    ELSE Mul(calc_grad_at_link(LinkAt(n, k)), FromInt(active_link_dirs_at_node(n, k)))

default_outgoing_sum(n) ==
    Add(SumSeq([ k \in 1..4 |-> Clip0(default_grad_at_node_w_dir(n, k)) ]),
        min_slope_thresh)

default_incoming_K_sum(Kf, n) ==
    Add(SumSeq([ k \in 1..4 |->
                   Mul(Clip0(Neg(default_grad_at_node_w_dir(n, k))),
                       K_link_ends(Kf, n, k)) ]),
        min_slope_thresh)

default_NextK(Kf) ==
    [ n \in Nodes(grid) |->
        Div(Add(default_incoming_K_sum(Kf, n), FromInt(Qwater_in[n])),
            default_outgoing_sum(n)) ]

RECURSIVE default_SolveLoop(_, _, _)
default_SolveLoop(Kf, Pf, mm) ==
    IF Gt(mm, tolerance)
    THEN CHOOSE r \in { default_SolveLoop(Kn, Kn, m) :
                            <<Kn, m>> \in { <<Kx, SquaredDifference(Kx, Pf)>> :
                                               Kx \in {default_NextK(Kf)} } } : TRUE
    ELSE Kf

\* K of a first call made with equation = 'default'.
K_of_default_equation == default_SolveLoop(zeros(grid), zeros(grid), initial_mismatch)

default_discharge(Kf, l) ==
    IF status_at_link(l) = "INACTIVE_LINK" THEN Zero
    ELSE Mul(map_value_at_max_node_to_link(Kf, l), calc_grad_at_link(l))

C17_EquationHasNoFeedback ==
    (pc = "returned" /\ calls = 1)
        => \A Kd \in {K_of_default_equation} :
               /\ K = Kd
               /\ \A l \in Links(grid) : discharges_at_link[l] = default_discharge(Kd, l)

OutgoingGradient(n, k) ==
    IF ~HasLink(n, k) \/ status_at_link(LinkAt(n, k)) # "ACTIVE_LINK" THEN Zero
    ELSE IF node_at_link_tail(LinkAt(n, k)) = n
         THEN Clip0(Neg(g_link[LinkAt(n, k)]))
         ELSE Clip0(g_link[LinkAt(n, k)])

OutgoingSumWithFloor(n) ==
    Add(SumSeq([ k \in 1..4 |-> OutgoingGradient(n, k) ]), min_slope_thresh)

RECURSIVE SumOfDts(_)
SumOfDts(s) == IF s = <<>> THEN 0 ELSE s[Len(s)] + SumOfDts(SubSeq(s, 1, Len(s) - 1))

C20_TimeAccounting ==
    nf_pc \in {"ready", "raised"}
        => /\ current_time = FromInt(SumOfDts(dts))
           /\ faulted_nodes = faulted_at_init
           /\ dts # <<>> =>
                 rate_applied = interp(FromInt(SumOfDts(SubSeq(dts, 1, Len(dts) - 1))),
                                       throw_time, throw_rate)
====
